---- MODULE Spec2Model ----
(***************************************************************************)
(* Model of update_records (src/lambda_function.py): one run of the        *)
(* reconciliation of the Arval workbook against the Salesforce orders,     *)
(* from the cleanup of the upload folder to the report and the result.     *)
(*                                                                         *)
(* A data frame is a sequence of rows, a row a record or a function from   *)
(* column names to cells.  The CRM org is a function from record           *)
(* identifiers to order records.  Variables keep the names of the locals   *)
(* of update_records.                                                      *)
(***************************************************************************)
EXTENDS Integers, Sequences, FiniteSets, TLC

\* ------------------------------------------------------------------ cells
\* None / NaN of an object (string) column.
NULL == "NULL"
\* pd.NA of a numeric column (RETURN_ODO as Int32, EOC_TOTALE as float).
NA == -1

\* ------------------------------------------------------------ bounds
\* Largest number of rows of the workbook in the wide family of inputs.
MaxRows == 2
\* Vehicle registrations (business keys) and CRM record identifiers.
Keys == {"K1", "K2"}
OrderIds == {"R1", "R2"}
\* The order in which the CRM returns records (any fixed order).
IdOrder == <<"R1", "R2">>

\* -------------------------------------------------------- program constants
\* col_mapping restricted to the columns that reach the planner: RINNOVO is
\* dropped before the rename, REGISTRATION (Targa_Veicolo__c) after it.
col_mapping ==
    [RETURN_DATE |-> "Data_Fine_Contratto__c",
     RETURN_ODO |-> "Return_Odo__c",
     COLLECTION_REASON_DESC |-> "causale__c",
     EOC_TOTALE |-> "Costi_Extra_Contratto__c"]

SheetFields == DOMAIN col_mapping
BusinessFields == {col_mapping[c] : c \in SheetFields}
\* Columns whose cells are numbers (their null is NA, not NULL).
NumericFields == {"Return_Odo__c", "Costi_Extra_Contratto__c"}

\* for _ in range(3)
MaxAttempts == 3

\* ThreadPoolExecutor(max_workers=10)
max_workers == 10

\* Rows of the bulk workbook: one more than the pool has workers.
BulkRows == 11

\* scol_to_keep without the join key
Stati == {"Attesa Consegna", "Live", "Chiuso"}

\* ------------------------------------------------------------ normalizer
\* str.upper() / str.title() on the strings of the input domain.
Upper(s) ==
    CASE s = "rinnovato" -> "RINNOVATO"
      [] OTHER -> s

Title(s) ==
    CASE s = "incidente" -> "Incidente"
      [] OTHER -> s

\* pd.to_datetime(format='%Y-%m-%d %H:%M:%S').dt.strftime('%Y-%m-%d')
DateOnly(s) ==
    CASE s = "2024-05-31 00:00:00" -> "2024-05-31"
      [] OTHER -> NULL

\* astype('Int32') on the string cells
ToInt32(s) ==
    CASE s = "15000" -> 15000
      [] OTHER -> NA

\* pd.to_numeric(errors='coerce').round(2), in cents
ToMoney(s) ==
    CASE s = "10.456" -> 1046
      [] OTHER -> NA

\* RINNOVO: .str.upper().map({'RINNOVATO': True}).fillna(False)
MapRinnovo(s) == Upper(s) = "RINNOVATO"

\* Lines 250-261 on one row (LEASE_START and LEASE_END_DATE are dropped).
NormalizeRow(r) ==
    [REGISTRATION |-> r.REGISTRATION,
     RINNOVO |-> MapRinnovo(r.RINNOVO),
     RETURN_DATE |-> DateOnly(r.RETURN_DATE),
     RETURN_ODO |-> ToInt32(r.RETURN_ODO),
     COLLECTION_REASON_DESC |-> Title(r.COLLECTION_REASON_DESC),
     EOC_TOTALE |-> ToMoney(r.EOC_TOTALE)]

\* pd.notnull(v) for the cell v of column k
NotNull(k, v) == IF k \in NumericFields THEN v # NA ELSE v # NULL

\* ------------------------------------------------------------------ state
VARIABLES
    pc,                       \* position in handler / update_records
    bucket,                   \* the keys under the upload prefix in S3
    latest_file_key,          \* the key cleanup returned (NULL: None)
    sheet,                    \* the workbook as read (line 242), string cells
    org,                      \* the Ordine__c records of the CRM org
    df_input,                 \* normalized rows; after line 308 the matched rows
    df_ordini,                \* the CRM snapshot fetched once (line 269)
    df_ordini_no_salesforce,  \* sheet 'Ordini No Salesforce'
    df_rinnovati_difference,  \* sheet 'Differenza Rinnovati'
    df_info_mail,             \* the matched rows as kept for the report
    attempt,                  \* iteration of the retry loop, 1..3 (0 before it)
    to_modify, to_skip, still_closed, to_close,
    plans,                    \* per attempt, the to_modify of that attempt
    crm_faulty,               \* whether the CRM may refuse an update in this run
    pending,                  \* positions of to_modify waiting in the pool's queue
    running,                  \* positions whose update_record call is in flight
    results,                  \* outcome of each finished update_record call
    df_modify,                \* outcomes collected from the pool
    history,                  \* per attempt, the status codes of that attempt
    calls,                    \* the update calls issued to the CRM so far
    report,                   \* the sheets built from line 374 on
    result                    \* statusCode returned by handler (0: none yet)

vars == <<pc, bucket, latest_file_key, sheet, org, df_input, df_ordini, df_ordini_no_salesforce,
          df_rinnovati_difference, df_info_mail, attempt, to_modify, to_skip,
          still_closed, to_close, plans, crm_faulty, pending, running, results, df_modify,
          history, calls,
          report, result>>

s3Vars == <<bucket, latest_file_key>>
dataVars == <<sheet, org, s3Vars, crm_faulty>>
matchVars == <<df_ordini_no_salesforce, df_rinnovati_difference, df_info_mail>>
planVars == <<to_modify, to_skip, still_closed, to_close, plans>>
poolVars == <<pending, running, results>>

\* ------------------------------------------------------------------ inputs
\* Wide family: up to MaxRows rows (duplicate registrations included), the
\* other cells fixed; the orders of the org vary in the fields the fetch
\* and the planner branch on (R2's order number may be that of R1's vehicle).
WideRows ==
    [REGISTRATION : Keys, RINNOVO : {NULL},
     RETURN_DATE : {NULL}, RETURN_ODO : {"15000"},
     COLLECTION_REASON_DESC : {NULL}, EOC_TOTALE : {NULL}]

WideSheets == UNION {[1..n -> WideRows] : n \in 1..MaxRows}

WideOrder(id, targa, numeri) ==
    [Id : {id}, Numero_Ordine__c : numeri, Targa_Veicolo__c : {targa},
     Stato__c : Stati, Rinnovato__c : {FALSE},
     Data_Fine_Contratto__c : {NULL}, Return_Odo__c : {NA},
     causale__c : {NULL}, Costi_Extra_Contratto__c : {NA}]

\* Deep family: one row and its order, every combination of the renewal
\* flag and of the business cells on both sides (null, equal, different).
DeepRows ==
    [REGISTRATION : {"K1"}, RINNOVO : {NULL, "rinnovato"},
     RETURN_DATE : {NULL, "2024-05-31 00:00:00"},
     RETURN_ODO : {NULL, "15000"},
     COLLECTION_REASON_DESC : {NULL, "incidente"},
     EOC_TOTALE : {NULL, "10.456"}]

DeepOrder ==
    [Id : {"R1"}, Numero_Ordine__c : {"K1"}, Targa_Veicolo__c : {"K1"},
     Stato__c : Stati, Rinnovato__c : BOOLEAN,
     Data_Fine_Contratto__c : {NULL, "2024-05-31"},
     Return_Odo__c : {NA, 15000},
     causale__c : {NULL, "Incidente"},
     Costi_Extra_Contratto__c : {NA, 1046}]

OtherOrder ==
    [Id |-> "R2", Numero_Ordine__c |-> "K2", Targa_Veicolo__c |-> "K2",
     Stato__c |-> "Attesa Consegna", Rinnovato__c |-> FALSE,
     Data_Fine_Contratto__c |-> NULL, Return_Odo__c |-> NA,
     causale__c |-> NULL, Costi_Extra_Contratto__c |-> NA]

\* The keys an upload folder may hold, in the order list_objects_v2 yields
\* them (ascending byte order of the key): two workbooks with the same
\* timestamp, an older one that sorts last, a workbook without a timestamp
\* and a file that is not a workbook.
ObjectKeys ==
    <<"up/100-a.xlsx", "up/100-b.XLSX", "up/99-c.xlsx", "up/arval.xlsx",
      "up/notes.txt">>

\* The folder of the runs whose workbook and org vary.
OneWorkbook == {"up/100-a.xlsx"}

\* No sheet written yet.
NoReport ==
    [Success |-> <<>>, Failed |-> <<>>, Skipped |-> <<>>,
     Contratti_Chiusi |-> <<>>, Contratti_Gia_Chiusi |-> <<>>]

InitWide ==
    /\ sheet \in WideSheets
    /\ \E o1 \in WideOrder("R1", "K1", {"K1"}), o2 \in WideOrder("R2", "K2", Keys) :
          org = [id \in OrderIds |-> IF id = "R1" THEN o1 ELSE o2]

InitDeep ==
    /\ \E r \in DeepRows : sheet = <<r>>
    /\ \E o1 \in DeepOrder :
          org = [id \in OrderIds |-> IF id = "R1" THEN o1 ELSE OtherOrder]

\* Bucket family: any content of the upload folder, one row and its order.
InitBucket ==
    /\ bucket \in SUBSET {ObjectKeys[i] : i \in DOMAIN ObjectKeys}
    /\ sheet = <<[REGISTRATION |-> "K1", RINNOVO |-> NULL,
                  RETURN_DATE |-> NULL, RETURN_ODO |-> "15000",
                  COLLECTION_REASON_DESC |-> NULL, EOC_TOTALE |-> NULL]>>
    /\ org = [id \in OrderIds |->
                 IF id = "R1" THEN [OtherOrder EXCEPT !.Id = "R1",
                                        !.Numero_Ordine__c = "K1",
                                        !.Targa_Veicolo__c = "K1"]
                 ELSE OtherOrder]

\* Bulk family: a workbook with more rows than the pool has workers, all
\* for the vehicle of R1, against a CRM that acknowledges every update.
InitBulk ==
    /\ sheet = [i \in 1..BulkRows |->
                   [REGISTRATION |-> "K1", RINNOVO |-> NULL,
                    RETURN_DATE |-> NULL, RETURN_ODO |-> "15000",
                    COLLECTION_REASON_DESC |-> NULL, EOC_TOTALE |-> NULL]]
    /\ org = [id \in OrderIds |->
                 IF id = "R1" THEN [OtherOrder EXCEPT !.Id = "R1",
                                        !.Numero_Ordine__c = "K1",
                                        !.Targa_Veicolo__c = "K1"]
                 ELSE OtherOrder]

Init ==
    /\ \/ (InitWide \/ InitDeep) /\ bucket = OneWorkbook
                                    /\ crm_faulty = TRUE
       \/ InitBucket /\ crm_faulty = TRUE
       \/ InitBulk /\ bucket = OneWorkbook /\ crm_faulty = FALSE
    /\ latest_file_key = NULL
    /\ pc = "cleanup"
    /\ df_input = <<>>
    /\ df_ordini = <<>>
    /\ df_ordini_no_salesforce = <<>>
    /\ df_rinnovati_difference = <<>>
    /\ df_info_mail = <<>>
    /\ attempt = 0
    /\ to_modify = <<>>
    /\ to_skip = <<>>
    /\ still_closed = <<>>
    /\ to_close = <<>>
    /\ plans = <<>>
    /\ pending = {}
    /\ running = {}
    /\ results = <<>>
    /\ df_modify = <<>>
    /\ history = <<>>
    /\ calls = {}
    /\ report = NoReport
    /\ result = 0

\* ------------------------------------------------------------ data frames
RECURSIVE Flatten(_)
Flatten(ss) == IF ss = <<>> THEN <<>> ELSE Head(ss) \o Flatten(Tail(ss))

\* The set of the values of a sequence.
Range(f) == {f[i] : i \in DOMAIN f}

\* left_on='REGISTRATION', right_on='Targa_Veicolo__c'
OnTarga(l, r) == l.REGISTRATION = r.Targa_Veicolo__c

\* df.merge(how='left', indicator=True): the inner rows ('both') and one
\* 'left_only' row for each left row without a match.
LeftMerge(left, right) ==
    Flatten([i \in DOMAIN left |->
        LET hits == SelectSeq(right, LAMBDA r : OnTarga(left[i], r))
        IN  IF hits = <<>>
            THEN <<[row |-> left[i], Targa_Veicolo__c |-> NULL,
                    merge |-> "left_only"]>>
            ELSE [j \in DOMAIN hits |->
                    [row |-> left[i],
                     Targa_Veicolo__c |-> hits[j].Targa_Veicolo__c,
                     merge |-> "both"]]])

\* A row of nulls: the left columns of a 'right_only' row.
NullRow ==
    [REGISTRATION |-> NULL, RINNOVO |-> NULL, RETURN_DATE |-> NULL,
     RETURN_ODO |-> NA, COLLECTION_REASON_DESC |-> NULL, EOC_TOTALE |-> NA]

\* df.merge(how='right', indicator=True)
RightMerge(left, right) ==
    Flatten([j \in DOMAIN right |->
        LET hits == SelectSeq(left, LAMBDA l : OnTarga(l, right[j]))
        IN  IF hits = <<>>
            THEN <<[row |-> NullRow,
                    Targa_Veicolo__c |-> right[j].Targa_Veicolo__c,
                    merge |-> "right_only"]>>
            ELSE [i \in DOMAIN hits |->
                    [row |-> hits[i],
                     Targa_Veicolo__c |-> right[j].Targa_Veicolo__c,
                     merge |-> "both"]]])

\* Mutant of Loc: the order is read from the CRM, not from the snapshot.
Loc_Refreshed(ordini, id) == org[id]

\* df_ordini.loc[id]
Loc(ordini, id) == CHOOSE o \in Range(ordini) : o.Id = id

\* ------------------------------------------------------------------ fetch
\* lib.build_soql: the WHERE clause of the query.
build_soql(acquisition_ids) ==
    [Numero_Ordine__c |-> acquisition_ids, Stato__c |-> "Attesa Consegna"]

\* sf.query_all(soql) as the CRM evaluates it, in the order IdOrder.
query_all(soql) ==
    LET ids == SelectSeq(IdOrder, LAMBDA id :
                   /\ org[id].Numero_Ordine__c \in soql.Numero_Ordine__c
                   /\ org[id].Stato__c = soql.Stato__c)
    IN  [j \in DOMAIN ids |-> org[ids[j]]]

\* A CRM session that ignores the status clause of the query (a stubbed
\* session, or an org whose query result is not restricted by status).
query_all_any_status(soql) ==
    LET ids == SelectSeq(IdOrder, LAMBDA id :
                   org[id].Numero_Ordine__c \in soql.Numero_Ordine__c)
    IN  [j \in DOMAIN ids |-> org[ids[j]]]

\* input_acquisition_ids = list(set(df_input['REGISTRATION'].values))
input_acquisition_ids == {r.REGISTRATION : r \in Range(df_input)}

\* The registrations in a fixed order (the order of list(set(...))).
KeyOrder == <<"K1", "K2">>

\* event['order_chunk_size'] (ORDER_CHUNCK_SIZE of the environment)
order_chunk_size == 1

\* [ids[i : i + n] for i in range(0, len(ids), n)]
Chunks(ids, n) ==
    [c \in 1..((Len(ids) + n - 1) \div n) |->
        SubSeq(ids, (c - 1) * n + 1,
               IF c * n < Len(ids) THEN c * n ELSE Len(ids))]

\* Lines 266-267: the query of each chunk.
ChunkQueries ==
    LET ids == SelectSeq(KeyOrder, LAMBDA k : k \in input_acquisition_ids)
        chunks == Chunks(ids, order_chunk_size)
    IN  [c \in DOMAIN chunks |-> build_soql(Range(chunks[c]))]

\* -------------------------------------------------------------- discovery
\* key.lower().endswith('.xlsx')
EndsWithXlsx(key) ==
    CASE key = "up/100-a.xlsx" -> TRUE
      [] key = "up/100-b.XLSX" -> TRUE
      [] key = "up/99-c.xlsx" -> TRUE
      [] key = "up/arval.xlsx" -> TRUE
      [] OTHER -> FALSE

\* int(os.path.basename(key).split('-', 1)[0]); NA stands for ValueError
\* (the text before the first '-' is never a negative number).
ParseTs(key) ==
    CASE key = "up/100-a.xlsx" -> 100
      [] key = "up/100-b.XLSX" -> 100
      [] key = "up/99-c.xlsx" -> 99
      [] OTHER -> NA

\* Lines 173-194: the loop over the listed objects, from the state acc.
RECURSIVE Scan(_, _)
Scan(keys, acc) ==
    IF keys = <<>> THEN acc
    ELSE LET key == Head(keys)
             ts == ParseTs(key)
         IN  IF ~EndsWithXlsx(key) \/ ts = NA
             THEN Scan(Tail(keys), acc)
             ELSE Scan(Tail(keys),
                       [latest_ts |-> IF ts > acc.latest_ts
                                      THEN ts ELSE acc.latest_ts,
                        latest_key |-> IF ts > acc.latest_ts
                                       THEN key ELSE acc.latest_key,
                        to_delete |-> Append(acc.to_delete, key)])

\* Lines 170-205 on the objects listed: the key kept and the keys deleted.
Cleanup(listed) ==
    LET scan == Scan(listed, [latest_ts |-> -1, latest_key |-> NULL,
                              to_delete |-> <<>>])
    IN  [latest_key |-> scan.latest_key,
         to_delete |-> IF scan.latest_key = NULL THEN <<>>
                       ELSE SelectSeq(scan.to_delete,
                                LAMBDA k : k # scan.latest_key)]

\* ---------------------------------------------------------------- actions
\* handler's except branch: the failure result.
Abort ==
    /\ pc' = "failed"
    /\ result' = 400

\* Lines 210-229: the folder is cleaned; without a workbook the run ends
\* with 202.
cleanup_keep_latest_by_filename ==
    /\ pc = "cleanup"
    /\ LET c == Cleanup(SelectSeq(ObjectKeys, LAMBDA k : k \in bucket))
       IN  /\ latest_file_key' = c.latest_key
           /\ bucket' = bucket \ {c.to_delete[i] : i \in DOMAIN c.to_delete}
           /\ IF c.latest_key = NULL
              THEN pc' = "nofile" /\ result' = 202
              ELSE pc' = "normalize" /\ UNCHANGED result
    /\ UNCHANGED <<sheet, org, crm_faulty, df_input, df_ordini, matchVars,
                   attempt, planVars, poolVars, df_modify, history, calls,
                   report>>

\* Lines 250-261.
normalize ==
    /\ pc = "normalize"
    /\ df_input' = [i \in DOMAIN sheet |-> NormalizeRow(sheet[i])]
    /\ pc' = "fetch"
    /\ UNCHANGED <<dataVars, df_ordini, matchVars, attempt, planVars,
                   poolVars, df_modify, history, calls, report, result>>

\* Lines 263-270 against the CRM.
fetch_ordini_all ==
    /\ pc = "fetch"
    /\ df_ordini' = Flatten([c \in DOMAIN ChunkQueries |->
                                  query_all(ChunkQueries[c])])
    /\ pc' = "picklist"
    /\ UNCHANGED <<dataVars, df_input, matchVars, attempt, planVars,
                   poolVars, df_modify, history, calls, report, result>>

\* Lines 263-270 against a session that returns orders of any status.
fetch_ordini_any_status ==
    /\ pc = "fetch"
    /\ df_ordini' = Flatten([c \in DOMAIN ChunkQueries |->
                                  query_all_any_status(ChunkQueries[c])])
    /\ pc' = "picklist"
    /\ UNCHANGED <<dataVars, df_input, matchVars, attempt, planVars,
                   poolVars, df_modify, history, calls, report, result>>

\* Lines 274-286: the allowed values of causale__c agree across the record
\* types, or the run aborts (PicklistInconsistencyError).  The advisory sheet
\* 'Casuali No Salesforce' is not tracked.
picklist_check ==
    /\ pc = "picklist"
    /\ \E consistent \in BOOLEAN :
          IF consistent
          THEN pc' = "match" /\ UNCHANGED result
          ELSE Abort
    /\ UNCHANGED <<dataVars, df_input, df_ordini, matchVars, attempt,
                   planVars, poolVars, df_modify, history, calls, report>>

\* Mutant of OrdiniNoSalesforce: the rows of either side without a match
\* are kept (_merge != 'both').
OrdiniNoSalesforce_BothSides(input, ordini) ==
    LET left == LeftMerge(input, ordini)
        right == RightMerge(input, ordini)
        both == left \o right
        kept == SelectSeq(both, LAMBDA m : m.merge # "both")
    IN  [i \in DOMAIN kept |-> kept[i].row]

\* Lines 289-305: sheet 'Ordini No Salesforce'.
OrdiniNoSalesforce(input, ordini) ==
    LET left == LeftMerge(input, ordini)
        right == RightMerge(input, ordini)
        both == left \o right
        kept == SelectSeq(both, LAMBDA m : m.merge = "left_only")
    IN  [i \in DOMAIN kept |-> kept[i].row]

\* Line 308: the inner merge with scol_to_keep.
Matched(input, ordini) ==
    Flatten([i \in DOMAIN input |->
        LET l == input[i]
            hits == SelectSeq(ordini, LAMBDA o : OnTarga(l, o))
        IN  [j \in DOMAIN hits |->
                [REGISTRATION |-> l.REGISTRATION,
                 RINNOVO |-> l.RINNOVO,
                 RETURN_DATE |-> l.RETURN_DATE,
                 RETURN_ODO |-> l.RETURN_ODO,
                 COLLECTION_REASON_DESC |-> l.COLLECTION_REASON_DESC,
                 EOC_TOTALE |-> l.EOC_TOTALE,
                 Id |-> hits[j].Id,
                 Stato__c |-> hits[j].Stato__c]]])

\* Lines 311-321: sheet 'Differenza Rinnovati'.
RinnovatiDifference(matched, ordini) ==
    LET live == SelectSeq(ordini, LAMBDA o : o.Stato__c = "Live")
        joined == Flatten([i \in DOMAIN matched |->
            LET l == matched[i]
                hits == SelectSeq(live, LAMBDA o : o.Id = l.Id)
            IN  [j \in DOMAIN hits |->
                    [REGISTRATION |-> l.REGISTRATION,
                     Id |-> l.Id,
                     RINNOVO_SALESFORCE |-> hits[j].Rinnovato__c,
                     RINNOVO_ARVAL |-> l.RINNOVO]]])
    IN  SelectSeq(joined, LAMBDA d : d.RINNOVO_ARVAL # d.RINNOVO_SALESFORCE)

\* Lines 326-327: RINNOVO dropped, the columns renamed by col_mapping,
\* Targa_Veicolo__c (REGISTRATION) dropped.  A row becomes a function from
\* the CRM field names, 'Id' and 'Stato__c' to cells.
Renamed(row) ==
    [k \in BusinessFields \cup {"Id", "Stato__c"} |->
        CASE k = "Id" -> row.Id
          [] k = "Stato__c" -> row.Stato__c
          [] k = col_mapping.RETURN_DATE -> row.RETURN_DATE
          [] k = col_mapping.RETURN_ODO -> row.RETURN_ODO
          [] k = col_mapping.COLLECTION_REASON_DESC -> row.COLLECTION_REASON_DESC
          [] k = col_mapping.EOC_TOTALE -> row.EOC_TOTALE]

\* Lines 289-329.  With no order fetched df_ordini has no column and
\* df_ordini[['Targa_Veicolo__c']] raises KeyError.
match ==
    /\ pc = "match"
    /\ IF df_ordini = <<>>
       THEN /\ Abort
            /\ UNCHANGED <<df_input, matchVars>>
       ELSE LET matched == Matched(df_input, df_ordini)
            IN  /\ df_ordini_no_salesforce' =
                       OrdiniNoSalesforce(df_input, df_ordini)
                /\ df_rinnovati_difference' =
                       RinnovatiDifference(matched, df_ordini)
                /\ df_info_mail' = matched
                /\ df_input' = [i \in DOMAIN matched |-> Renamed(matched[i])]
                /\ pc' = "plan"
                /\ UNCHANGED result
    /\ UNCHANGED <<dataVars, df_ordini, attempt, planVars, poolVars,
                   df_modify, history, calls, report>>

\* ---------------------------------------------------------------- planner
\* Mutant of DiffKeys: the pd.notnull(v) test is missing.
DiffKeys_NoNullTest(input_row, ordini) ==
    {k \in DOMAIN input_row :
        \/ k = "Id"
        \/ Loc(ordini, input_row["Id"])[k] # input_row[k]}

\* Mutant of DiffKeys: == in place of != in the comparison with the CRM.
DiffKeys_Equal(input_row, ordini) ==
    {k \in DOMAIN input_row :
        \/ k = "Id"
        \/ /\ NotNull(k, input_row[k])
           /\ Loc(ordini, input_row["Id"])[k] = input_row[k]}

\* Lines 350-352: the keys the loop over input_row.items() writes into rec.
DiffKeys(input_row, ordini) ==
    {k \in DOMAIN input_row :
        \/ k = "Id"
        \/ /\ NotNull(k, input_row[k])
           /\ Loc(ordini, input_row["Id"])[k] # input_row[k]}

\* Lines 341-352 for a row that is not closed: rec['Stato__c'] = 'Chiuso'
\* first, then rec[k] = v for the keys of the loop.
Intent(input_row, ordini) ==
    LET keys == DiffKeys(input_row, ordini)
    IN  [k \in {"Stato__c"} \cup keys |->
            IF k \in keys THEN input_row[k] ELSE "Chiuso"]

\* Line 353: the intent goes to the executor unless this holds.
SkipTest(rec) == DOMAIN rec = {"Id"}

\* Mutant of IsClosed: the status is compared with another literal.
IsClosed_OtherLiteral(input_row) == input_row["Stato__c"] = "Closed"

\* Line 344
IsClosed(input_row) == input_row["Stato__c"] = "Chiuso"

\* Lines 356-357
Skipped(rec) ==
    [k \in DOMAIN rec \cup {"status_code", "status_description"} |->
        CASE k = "status_code" -> 200
          [] k = "status_description" -> "Skipped"
          [] OTHER -> rec[k]]

\* Lines 334-358: one planning pass over df_input.
PlanPass(input, ordini) ==
    LET open == SelectSeq(input, LAMBDA r : ~IsClosed(r))
        recs == [i \in DOMAIN open |-> Intent(open[i], ordini)]
        skip == SelectSeq(recs, SkipTest)
    IN  [to_modify |-> SelectSeq(recs, LAMBDA rec : ~SkipTest(rec)),
         to_skip |-> [i \in DOMAIN skip |-> Skipped(skip[i])],
         still_closed |-> SelectSeq(input, IsClosed),
         to_close |-> open]

\* Lines 332-365: the next iteration of the retry loop up to the pool.
plan ==
    /\ pc = "plan"
    /\ attempt < MaxAttempts
    /\ attempt' = attempt + 1
    /\ LET p == PlanPass(df_input, df_ordini)
       IN  /\ to_modify' = p.to_modify
           /\ to_skip' = p.to_skip
           /\ still_closed' = p.still_closed
           /\ to_close' = p.to_close
           /\ plans' = Append(plans, p.to_modify)
           /\ IF Len(p.to_modify) = 0
              THEN /\ df_modify' = <<>>
                   /\ pc' = "report"
                   /\ UNCHANGED poolVars
              ELSE /\ pending' = DOMAIN p.to_modify
                   /\ running' = {}
                   /\ results' = <<>>
                   /\ pc' = "execute"
                   /\ UNCHANGED df_modify
    /\ UNCHANGED <<dataVars, df_input, df_ordini, matchVars, history, calls,
                   report, result>>

\* --------------------------------------------------------------- executor
\* What sf_session.Ordine__c.update may do: acknowledge with 204, answer
\* with another response, or raise.
Responses == {"204", "response", "exception"}

\* The answers of the CRM of this run.
CrmResponses == IF crm_faulty THEN Responses ELSE {"204"}

\* Mutant of update_record: every response that is not an exception counts
\* as a success (the status_code == 204 test is missing).
update_record_NoStatusTest(record, response) ==
    LET record_id == record["Id"]
    IN  IF response # "exception"
        THEN [status_code |-> 200, Id |-> record_id,
              status_description |-> response]
        ELSE [status_code |-> 400, Id |-> record_id,
              status_description |-> response]

\* Lines 46-67.
update_record(record, response) ==
    LET record_id == record["Id"]
    IN  IF response = "204"
        THEN [status_code |-> 200, Id |-> record_id,
              status_description |-> "Success"]
        ELSE [status_code |-> 400, Id |-> record_id,
              status_description |-> response]

\* Line 47: record.pop('Id') leaves the data of the update call.
Data(record) == [k \in DOMAIN record \ {"Id"} |-> record[k]]

\* The CRM applying an acknowledged update to the order o.
Applied(o, data) ==
    [f \in DOMAIN o |-> IF f \in DOMAIN data THEN data[f] ELSE o[f]]

\* Mutant of WorkerFree: the pool starts a thread for every queued item.
WorkerFree_Always == TRUE

\* The pool has an idle worker or may still start one.
WorkerFree == Cardinality(running) < max_workers

\* executor.map queues the intents in the order of to_modify; a free worker
\* takes the first one of the queue and enters update_record (line 368).
start_update_record ==
    /\ pc = "execute"
    /\ pending # {}
    /\ WorkerFree
    /\ LET i == CHOOSE j \in pending : \A k \in pending : j <= k
       IN  /\ pending' = pending \ {i}
           /\ running' = running \cup {i}
    /\ UNCHANGED <<pc, dataVars, df_input, df_ordini, matchVars, attempt,
                   planVars, results, df_modify, history, calls, report,
                   result>>

\* The update call of a running worker returns and update_record with it
\* (lines 46-67); the workers finish in any order.
call_update_record ==
    /\ pc = "execute"
    /\ \E i \in running, response \in CrmResponses :
          LET rec == to_modify[i]
              id == rec["Id"]
          IN  /\ results' = (i :> update_record(rec, response)) @@ results
              /\ running' = running \ {i}
              /\ calls' = calls \cup {[attempt |-> attempt, pos |-> i,
                                        Id |-> id, data |-> Data(rec)]}
              /\ org' = IF response = "204"
                        THEN [org EXCEPT ![id] = Applied(@, Data(rec))]
                        ELSE org
    /\ UNCHANGED <<pc, sheet, s3Vars, crm_faulty, pending, df_input,
                   df_ordini, matchVars, attempt, planVars, df_modify,
                   history, report, result>>

\* Mutant of AnyNotSuccess: the loop goes on only while every outcome
\* fails.
AnyNotSuccess_All(outcomes) ==
    \A i \in DOMAIN outcomes : outcomes[i].status_description # "Success"

\* Line 369: some outcome is not Success.
AnyNotSuccess(outcomes) ==
    \E i \in DOMAIN outcomes : outcomes[i].status_description # "Success"

\* Mutant of collect: an intent acknowledged in the previous attempt keeps
\* its Success outcome.
collect_KeepSuccess ==
    /\ pc = "execute"
    /\ pending = {}
    /\ running = {}
    /\ LET outcomes == [i \in DOMAIN to_modify |-> results[i]]
       IN  /\ df_modify' =
                  [i \in DOMAIN outcomes |->
                      IF attempt > 1 /\ df_modify[i].status_code = 200
                      THEN df_modify[i] ELSE outcomes[i]]
           /\ history' = Append(history,
                  [i \in DOMAIN outcomes |-> outcomes[i].status_code])
           /\ pc' = IF AnyNotSuccess(outcomes) /\ attempt < MaxAttempts
                    THEN "plan" ELSE "report"
    /\ UNCHANGED <<dataVars, df_input, df_ordini, matchVars, attempt,
                   planVars, poolVars, calls, report, result>>

\* Lines 368-372: the pool has drained; collect in the order of to_modify
\* and decide whether the loop goes on.
collect ==
    /\ pc = "execute"
    /\ pending = {}
    /\ running = {}
    /\ LET outcomes == [i \in DOMAIN to_modify |-> results[i]]
       IN  /\ df_modify' = outcomes
           /\ history' = Append(history,
                  [i \in DOMAIN outcomes |-> outcomes[i].status_code])
           /\ pc' = IF AnyNotSuccess(outcomes) /\ attempt < MaxAttempts
                    THEN "plan" ELSE "report"
    /\ UNCHANGED <<dataVars, df_input, df_ordini, matchVars, attempt,
                   planVars, poolVars, calls, report, result>>

\* ----------------------------------------------------------------- report
\* The status_description column of the frames that carry an outcome.
Description(r, noted) == IF noted THEN r["status_description"] ELSE NULL

\* df_info_mail.merge(frame, on='Id', how='right'): for each row of frame,
\* in its order, one row per row of df_info_mail with that Id (a single
\* row without REGISTRATION if there is none).
MergeInfo(info, frame, noted) ==
    Flatten([j \in DOMAIN frame |->
        LET hits == SelectSeq(info, LAMBDA l : l.Id = frame[j]["Id"])
        IN  IF hits = <<>>
            THEN <<[REGISTRATION |-> NULL, Id |-> frame[j]["Id"],
                    Stato_Esecuzione |-> Description(frame[j], noted)]>>
            ELSE [i \in DOMAIN hits |->
                    [REGISTRATION |-> hits[i].REGISTRATION,
                     Id |-> frame[j]["Id"],
                     Stato_Esecuzione |-> Description(frame[j], noted)]]])


\* Lines 374-394: the sheets of report.xlsx fed by the retry loop.
BuildReport(info, modify, skip, closed, close) ==
    [Success |->
        MergeInfo(info, SelectSeq(modify, LAMBDA o : o.status_code = 200),
                  TRUE),
     Failed |->
        MergeInfo(info, SelectSeq(modify, LAMBDA o : o.status_code # 200),
                  TRUE),
     Skipped |-> MergeInfo(info, skip, TRUE),
     Contratti_Chiusi |-> MergeInfo(info, close, FALSE),
     Contratti_Gia_Chiusi |-> MergeInfo(info, closed, FALSE)]

\* Lines 374-506: the report is built and sent, the success result returned.
build_report ==
    /\ pc = "report"
    /\ report' = BuildReport(df_info_mail, df_modify, to_skip, still_closed,
                             to_close)
    /\ result' = 200
    /\ pc' = "done"
    /\ UNCHANGED <<dataVars, df_input, df_ordini, matchVars, attempt,
                   planVars, poolVars, df_modify, history, calls>>

\* ---------------------------------------------------------- specifications
Steps ==
    \/ cleanup_keep_latest_by_filename
    \/ normalize
    \/ picklist_check
    \/ match
    \/ plan
    \/ start_update_record
    \/ call_update_record
    \/ collect
    \/ build_report

\* The run against the CRM, which evaluates the query of build_soql.
Next == fetch_ordini_all \/ Steps

Spec == Init /\ [][Next]_vars

\* The run against a CRM session whose answer holds orders of any status.
NextAnyStatus == fetch_ordini_any_status \/ Steps

SpecAnyStatus == Init /\ [][NextAnyStatus]_vars

\* ================================================================ claims
\* The identifiers of the rows of a frame.
Ids(frame) == {frame[i]["Id"] : i \in DOMAIN frame}

\* The planner has run at least once.
Planned == attempt >= 1 /\ pc \in {"execute", "plan", "report", "done"}

\* The matcher has run (the run was not aborted before or in it).
MatchDone == pc \in {"plan", "execute", "report", "done"}

\* The matched rows whose order is not closed in the snapshot.
OpenRows == SelectSeq(df_info_mail, LAMBDA m : m.Stato__c # "Chiuso")

\* The business keys of the workbook (E) and of the snapshot (C).
ExternalKeys == {sheet[i].REGISTRATION : i \in DOMAIN sheet}
CrmKeys == {df_ordini[j].Targa_Veicolo__c : j \in DOMAIN df_ordini}

\* The keys an intent carries besides the outcome of a skip.
IntentKeys(rec) == DOMAIN rec \ {"status_code", "status_description"}

\* C1 (skip exactness): after every planning pass an intent is classified
\* Skipped (in to_skip with 200/'Skipped', not in to_modify) if and only if
\* its key set is exactly {Id, Stato__c}.  The code sends the status-only
\* intents to the executor: this formula is violated.
C1_SkipExactness ==
    Planned =>
        /\ \A i \in DOMAIN to_modify :
              IntentKeys(to_modify[i]) # {"Id", "Stato__c"}
        /\ \A i \in DOMAIN to_skip :
              /\ IntentKeys(to_skip[i]) = {"Id", "Stato__c"}
              /\ to_skip[i]["status_code"] = 200
              /\ to_skip[i]["status_description"] = "Skipped"

\* ---------------------------------------------------------------- C2
\* The update calls issued for the intent at position i of to_modify.
CallsOf(i) == {c \in calls : c.pos = i}

\* The intent at position i ends the run in the sheet 'Success' / 'Failed'.
EndsInSuccess(i) ==
    /\ df_modify[i].status_code = 200
    /\ \E r \in Range(report.Success) :
          r.Id = to_modify[i]["Id"] /\ r.Stato_Esecuzione = "Success"

EndsInFailed(i) ==
    /\ df_modify[i].status_code # 200
    /\ \E r \in Range(report.Failed) :
          r.Id = to_modify[i]["Id"] /\ r.Stato_Esecuzione # "Success"

\* The update call of intent i fails on the attempts before n.
FailsBefore(i, n) == \A a \in 1..(n - 1) : history[a][i] # 200

\* The update call of intent i fails on every attempt of the run.
FailsAlways(i) == \A a \in DOMAIN history : history[a][i] # 200

\* C2 as stated (retry convergence): a write-bound record whose update call
\* fails before attempt N and succeeds on attempt N ends in Success; one
\* whose call fails on every attempt ends in Failed after exactly 3 calls.
C2_RetryConvergence ==
    pc = "done" =>
        \A i \in DOMAIN to_modify :
            /\ (\E n \in DOMAIN history :
                    FailsBefore(i, n) /\ history[n][i] = 200)
                  => EndsInSuccess(i)
            /\ FailsAlways(i) =>
                  EndsInFailed(i) /\ Cardinality(CallsOf(i)) = 3

\* C2 as amended: the call must also succeed on every attempt the loop runs
\* after N (the whole plan is re-issued while any sibling fails, and only
\* the last attempt's outcome is reported).
C2_RetryConvergenceAmended ==
    pc = "done" =>
        \A i \in DOMAIN to_modify :
            /\ (\E n \in DOMAIN history :
                    /\ FailsBefore(i, n)
                    /\ \A a \in n..Len(history) : history[a][i] = 200)
                  => EndsInSuccess(i)
            /\ FailsAlways(i) =>
                  /\ EndsInFailed(i)
                  /\ Len(history) = MaxAttempts
                  /\ Cardinality(CallsOf(i)) = 3

\* Witness of C2: a finished run of three attempts in which one record
\* failed on attempt 1 and succeeded on attempts 2 and 3 (Success) while a
\* sibling failed three times (Failed).
C2_Witness ==
    /\ pc = "done"
    /\ Len(history) = 3
    /\ \E i, j \in DOMAIN to_modify :
          /\ <<history[1][i], history[2][i], history[3][i]>> = <<400, 200, 200>>
          /\ EndsInSuccess(i)
          /\ FailsAlways(j)
          /\ EndsInFailed(j)

\* ---------------------------------------------------------------- C3
\* C3 (bucket exclusivity): at the end of the run the sheets Success,
\* Skipped, Failed and 'Contratti Gia Chiusi' are pairwise disjoint by
\* record identifier and together hold every matched record.
C3_BucketPartition ==
    pc = "done" =>
        LET S == Ids(report.Success)
            K == Ids(report.Skipped)
            F == Ids(report.Failed)
            A == Ids(report.Contratti_Gia_Chiusi)
        IN  /\ S \cap K = {} /\ S \cap F = {} /\ S \cap A = {}
            /\ K \cap F = {} /\ K \cap A = {} /\ F \cap A = {}
            /\ S \cup K \cup F \cup A = Ids(df_info_mail)

\* ---------------------------------------------------------------- C4
MatchedKeys == {df_info_mail[i].REGISTRATION : i \in DOMAIN df_info_mail}
UnmatchedKeys ==
    {df_ordini_no_salesforce[i].REGISTRATION :
        i \in DOMAIN df_ordini_no_salesforce}

\* C4 as stated (matcher partition): matched = E \cap C and the sheet
\* 'Ordini No Salesforce' reports the symmetric difference of E and C.
C4_SymmetricDifference ==
    MatchDone =>
        /\ MatchedKeys = ExternalKeys \cap CrmKeys
        /\ UnmatchedKeys =
              (ExternalKeys \ CrmKeys) \cup (CrmKeys \ ExternalKeys)

\* C4 as amended: the sheet reports only the workbook's keys absent from
\* the CRM snapshot, one row per workbook row; a CRM key absent from the
\* workbook is not reported.
C4_LeftOnly ==
    MatchDone =>
        /\ MatchedKeys = ExternalKeys \cap CrmKeys
        /\ UnmatchedKeys = ExternalKeys \ CrmKeys
        /\ Len(df_ordini_no_salesforce) =
              Cardinality({i \in DOMAIN sheet :
                              sheet[i].REGISTRATION \notin CrmKeys})

\* Witness of C4: the matcher has run on a snapshot holding a key that the
\* workbook lacks, next to a matched key.
C4_Witness ==
    /\ MatchDone
    /\ CrmKeys \ ExternalKeys # {}
    /\ MatchedKeys # {}
    /\ UnmatchedKeys = {}

\* ---------------------------------------------------------------- C5
\* The cell of field k of the matched workbook row m, in CRM field names.
External(m, k) == Renamed(m)[k]

\* C5 (diff minimality): in every planning pass and every update call an
\* intent sent to the executor carries Id and Stato__c = 'Chiuso', and
\* every other field it carries is a field of a workbook row of that record
\* whose value is not null and differs from the snapshot's value.
C5_DiffMinimality ==
    /\ Planned =>
          \A i \in DOMAIN to_modify :
             LET rec == to_modify[i]
             IN  /\ {"Id", "Stato__c"} \subseteq DOMAIN rec
                 /\ rec["Stato__c"] = "Chiuso"
                 /\ \E m \in Range(df_info_mail) :
                       /\ m.Id = rec["Id"]
                       /\ \A k \in DOMAIN rec \ {"Id", "Stato__c"} :
                             /\ k \in BusinessFields
                             /\ rec[k] = External(m, k)
                             /\ NotNull(k, External(m, k))
                             /\ External(m, k) # Loc(df_ordini, m.Id)[k]
    /\ \A c \in calls :
          /\ c.data["Stato__c"] = "Chiuso"
          /\ \A k \in DOMAIN c.data \ {"Stato__c"} :
                /\ NotNull(k, c.data[k])
                /\ c.data[k] # Loc(df_ordini, c.Id)[k]

\* Witness of C5: on a retry, an update call was issued whose data carries
\* the odometer (non-null and different) but neither the reason (equal to
\* the snapshot's) nor the return date (null in the workbook).
C5_Witness ==
    \E c \in calls, m \in Range(df_info_mail) :
        /\ c.attempt = 2
        /\ m.Id = c.Id
        /\ DOMAIN c.data = {"Stato__c", "Return_Odo__c"}
        /\ m.COLLECTION_REASON_DESC = "Incidente"
        /\ Loc(df_ordini, m.Id).causale__c = "Incidente"
        /\ m.RETURN_DATE = NULL
        /\ Loc(df_ordini, m.Id).Data_Fine_Contratto__c # NULL

\* ---------------------------------------------------------------- C6
\* The intents planned for the matched row m carry every business field of
\* m that is not null and differs from the snapshot.
CarriesDiffs(m) ==
    \E rec \in Range(to_modify) :
        /\ rec["Id"] = m.Id
        /\ rec["Stato__c"] = "Chiuso"
        /\ \A k \in BusinessFields :
              (NotNull(k, External(m, k))
                  /\ External(m, k) # Loc(df_ordini, m.Id)[k])
              => (k \in DOMAIN rec /\ rec[k] = External(m, k))

\* C6 as stated: for a matched record that is not closed every field of
\* the normalized row that is not null and differs from the CRM's value is
\* in the intent, the renewal flag (Rinnovato__c) included.
C6_AllDiffsIncluded ==
    Planned =>
        \A m \in Range(OpenRows) :
            /\ CarriesDiffs(m)
            /\ m.RINNOVO # Loc(df_ordini, m.Id).Rinnovato__c =>
                  \E rec \in Range(to_modify) :
                      /\ rec["Id"] = m.Id
                      /\ "Rinnovato__c" \in DOMAIN rec
                      /\ rec["Rinnovato__c"] = m.RINNOVO

\* C6 as amended: the renewal flag is only compared (sheet 'Differenza
\* Rinnovati'), never written: no intent carries Rinnovato__c; every other
\* business field that is not null and differs is in the intent.
C6_DiffsWithoutRenewal ==
    Planned =>
        /\ \A m \in Range(OpenRows) : CarriesDiffs(m)
        /\ \A rec \in Range(to_modify) : "Rinnovato__c" \notin DOMAIN rec

\* Witness of C6: the row {renewal true, reason 'Incidente', odometer
\* 15000} against the open order {renewal false, reason null} was planned:
\* the intent sent to the executor carries the status, the reason and the
\* odometer.
C6_Witness ==
    /\ pc = "execute"
    /\ \E m \in Range(OpenRows), rec \in Range(to_modify) :
          /\ m.RINNOVO = TRUE
          /\ m.COLLECTION_REASON_DESC = "Incidente"
          /\ m.RETURN_ODO = 15000
          /\ Loc(df_ordini, m.Id).Rinnovato__c = FALSE
          /\ Loc(df_ordini, m.Id).causale__c = NULL
          /\ rec["Id"] = m.Id
          /\ {"Stato__c", "causale__c", "Return_Odo__c"} \subseteq DOMAIN rec
          /\ rec["causale__c"] = "Incidente"
          /\ rec["Return_Odo__c"] = 15000

\* ---------------------------------------------------------------- C7
\* The matched rows whose order is closed in the snapshot.
ClosedRows == SelectSeq(df_info_mail, LAMBDA m : m.Stato__c = "Chiuso")

\* C7: a matched record closed in the snapshot is routed to still_closed
\* in every planning pass and to the sheet 'Contratti Gia Chiusi' at the
\* end, and no update call is ever issued for its identifier.
C7_ClosedNeverWritten ==
    \A m \in Range(ClosedRows) :
        /\ \A c \in calls : c.Id # m.Id
        /\ Planned =>
              /\ m.Id \in Ids(still_closed)
              /\ m.Id \notin Ids(to_modify) \cup Ids(to_skip) \cup Ids(to_close)
        /\ pc = "done" =>
              /\ m.Id \in Ids(report.Contratti_Gia_Chiusi)
              /\ m.Id \notin Ids(report.Success) \cup Ids(report.Failed)

\* Witness of C7: a run of three attempts (a sibling kept failing) has
\* ended with a closed matched record in 'Contratti Gia Chiusi'.
C7_Witness ==
    /\ pc = "done"
    /\ attempt = 3
    /\ calls # {}
    /\ \E m \in Range(ClosedRows) : m.Id \in Ids(report.Contratti_Gia_Chiusi)

\* ---------------------------------------------------------------- C8
\* The attempts whose pool has drained.
DrainedAttempts == 1..(IF pc = "execute" THEN attempt - 1 ELSE attempt)

\* C8: a fault of one update call (a response other than 204, or an
\* exception) yields the outcome 400 for that record only and never aborts
\* the run: every intent of every drained attempt was called, the failure
\* result is returned only by a run that issued no update call, and a run
\* whose last attempt left failures puts them in 'Failed' and returns 200.
C8_FaultsContained ==
    /\ \A i \in DOMAIN results :
          /\ results[i].Id = to_modify[i]["Id"]
          /\ results[i].status_description \in {"response", "exception"}
                => results[i].status_code = 400
          /\ results[i].status_description = "Success"
                => results[i].status_code = 200
    /\ \A a \in DrainedAttempts, i \in DOMAIN to_modify :
          \E c \in calls : c.attempt = a /\ c.pos = i
    /\ pc = "failed" => (attempt = 0 /\ calls = {} /\ result = 400)
    /\ pc = "done" =>
          /\ result = 200
          /\ \A i \in DOMAIN df_modify :
                df_modify[i].status_code # 200 => EndsInFailed(i)

\* Witness of C8: a run of three attempts has ended with the success
\* result although the last attempt held a call that raised, next to a
\* sibling whose call was acknowledged in the same attempt.
C8_Witness ==
    /\ pc = "done"
    /\ result = 200
    /\ attempt = 3
    /\ \E i, j \in DOMAIN df_modify :
          /\ df_modify[i].status_description = "exception"
          /\ df_modify[i].Id # df_modify[j].Id
          /\ EndsInFailed(i)
          /\ EndsInSuccess(j)

\* ---------------------------------------------------------------- C9
\* C9: duplicate registrations of the workbook collapse to one key: every
\* pass plans at most one intent per CRM record, so no two update calls of
\* one attempt target the same record.  The code plans one intent per
\* workbook row: this formula is violated.
C9_OneIntentPerRecord ==
    /\ Planned =>
          \A i, j \in DOMAIN to_modify :
              i # j => to_modify[i]["Id"] # to_modify[j]["Id"]
    /\ \A c, d \in calls :
          (c.attempt = d.attempt /\ c.Id = d.Id) => c.pos = d.pos

\* ---------------------------------------------------------------- C10
\* The matched rows of open orders whose renewal flag differs from the
\* snapshot's.
RenewalDisagrees ==
    {m \in Range(OpenRows) : m.RINNOVO # Loc(df_ordini, m.Id).Rinnovato__c}

\* C10: the sheet 'Differenza Rinnovati' holds exactly the matched records
\* that are not closed in the snapshot (those the planner closes) and whose
\* renewal flag differs from the CRM's.  The code keeps only the orders in
\* status 'Live': this formula is violated.
C10_RenewalMismatch ==
    MatchDone =>
        Ids(df_rinnovati_difference) = {m.Id : m \in RenewalDisagrees}

\* C11: when cleanup_keep_latest_by_filename returns a key, that key is the
\* workbook with the highest timestamp in its name among the objects that
\* were under the prefix, and it is the only object left there: every other
\* object (older workbooks, workbooks without a parseable timestamp, files
\* that are not workbooks) has been deleted.
C11_OnlyLatestRemains ==
    [][(pc = "cleanup" /\ latest_file_key' # NULL) =>
          /\ latest_file_key' \in bucket
          /\ EndsWithXlsx(latest_file_key')
          /\ \A k \in bucket :
                (EndsWithXlsx(k) /\ ParseTs(k) # NA) =>
                    ParseTs(k) <= ParseTs(latest_file_key')
          /\ bucket' = {latest_file_key'}]_vars

\* The loop of the attempts is over.
LoopOver == pc \in {"report", "done"}

AllSuccess(a) == \A i \in DOMAIN history[a] : history[a][i] = 200

\* C12: the planning-and-execution cycle is retried whole against the same
\* snapshot: every attempt plans the intents of the first attempt (same
\* identifiers, same field values) and sends each of them again, also those
\* acknowledged before; there are at most 3 attempts, and the loop stops
\* before the third exactly when an attempt has no intent or only Success
\* outcomes.
C12_WholeRetryStaleSnapshot ==
    /\ attempt <= 3
    /\ Len(plans) = attempt
    /\ \A k \in DOMAIN plans : plans[k] = plans[1]
    /\ \A k \in DOMAIN history : \A i \in DOMAIN plans[1] :
          [attempt |-> k, pos |-> i, Id |-> plans[1][i]["Id"],
           data |-> Data(plans[1][i])] \in calls
    /\ \A k \in 1..(Len(plans) - 1) :
          /\ plans[k] # <<>>
          /\ k \in DOMAIN history
          /\ ~AllSuccess(k)
    /\ LoopOver =>
          \/ attempt = 3
          \/ plans[attempt] = <<>>
          \/ Len(history) = attempt /\ AllSuccess(attempt)
    /\ (pc = "plan" /\ attempt > 0) =>
          /\ attempt < 3
          /\ Len(history) = attempt
          /\ ~AllSuccess(attempt)

\* A second attempt has sent again, with the same data, an intent that was
\* acknowledged in the first.
C12_Witness ==
    /\ LoopOver
    /\ Len(history) >= 2
    /\ \E i \in DOMAIN plans[1] :
          /\ history[1][i] = 200
          /\ Cardinality(DOMAIN plans[1][i]) > 2
          /\ plans[2][i] = plans[1][i]
          /\ \E c \in calls : c.attempt = 2 /\ c.pos = i
                                /\ c.data = Data(plans[1][i])

\* Every intent of attempt k has a completed update call.
Drained(k) ==
    \A i \in DOMAIN plans[k] :
        \E c \in calls : c.attempt = k /\ c.pos = i

\* C13: the write phase is a fan-out/fan-in barrier: never more than 10
\* update calls are in flight; a call of an attempt is queued, in flight or
\* completed only when every call of the earlier attempts has completed and
\* their outcomes were collected; and the outcomes of an attempt are
\* collected only when its pool has drained, whatever the order in which
\* the workers finish.
C13_FanOutFanInBarrier ==
    /\ Cardinality(running) <= 10
    /\ running \cap pending = {}
    /\ (running # {} \/ pending # {}) =>
          /\ pc = "execute"
          /\ Len(history) = attempt - 1
    /\ \A c \in calls :
          /\ c.attempt <= attempt
          /\ \A k \in 1..(c.attempt - 1) :
                k \in DOMAIN history /\ Drained(k)
    /\ \A k \in DOMAIN history :
          /\ Drained(k)
          /\ k = attempt => running = {} /\ pending = {}
    /\ df_modify # <<>> =>
          /\ Len(history) >= 1
          /\ Len(df_modify) = Len(plans[1])

\* The pool is saturated: 10 calls are in flight and an intent waits in the
\* queue.
C13_Witness ==
    /\ pc = "execute"
    /\ Cardinality(running) = 10
    /\ pending # {}

\* The status codes of the last executed attempt (none without an intent).
LastOutcomes == IF history = <<>> THEN <<>> ELSE history[Len(history)]

\* The intent at position i was acknowledged in an attempt before the last.
AckedBefore(i) == \E a \in 1..(Len(history) - 1) : history[a][i] = 200

\* C14: the report classifies each write-bound record by its update call of
\* the last executed attempt only: Success holds exactly the records with
\* an acknowledged last call, Failed exactly those with a last call that
\* was not; a record acknowledged in an earlier attempt whose last call
\* failed is in Failed although the CRM holds the write.
C14_LastAttemptOnly ==
    pc = "done" =>
        /\ Ids(report.Success) =
              {plans[1][i]["Id"] :
                  i \in {j \in DOMAIN LastOutcomes : LastOutcomes[j] = 200}}
        /\ Ids(report.Failed) =
              {plans[1][i]["Id"] :
                  i \in {j \in DOMAIN LastOutcomes : LastOutcomes[j] # 200}}
        /\ \A i \in DOMAIN LastOutcomes :
              (AckedBefore(i) /\ LastOutcomes[i] # 200) =>
                  /\ plans[1][i]["Id"] \in Ids(report.Failed)
                  /\ org[plans[1][i]["Id"]].Stato__c = "Chiuso"

\* A record acknowledged in the first attempt, refused in the last, listed
\* in Failed only, and closed in the CRM.
C14_Witness ==
    /\ pc = "done"
    /\ \E i \in DOMAIN LastOutcomes :
          /\ history[1][i] = 200
          /\ LastOutcomes[i] # 200
          /\ plans[1][i]["Id"] \in Ids(report.Failed)
          /\ plans[1][i]["Id"] \notin Ids(report.Success)
          /\ org[plans[1][i]["Id"]].Stato__c = "Chiuso"

====
